---- MODULE Spec2Model ----
(***************************************************************************)
(* A model of pbnjay/goseq: the FASTA/FASTQ stream decoders (package       *)
(* goseq) and the concurrent conversion pipeline of cmd/fq2fa.             *)
(*                                                                         *)
(* Bytes are one-character strings and byte slices are sequences of them.  *)
(* Errors are strings: "nil", "errNotStarted", "EOF" (io.EOF), "EIO" (any  *)
(* other error of the underlying reader), "ErrBufferFull".                 *)
(***************************************************************************)
EXTENDS Integers, Sequences, FiniteSets, TLC

\* The size of bufio.Reader's buffer (bufio.NewReader), scaled down.
BufSize == 4
\* Longest arbitrary byte stream the decoder specification enumerates.
MaxLen == 4
\* Most records in a generated well-formed stream.
MaxRecs == 2

NL == "\n"

Min(a, b) == IF a <= b THEN a ELSE b

\* bytes.IndexByte, 1-based; 0 when c does not occur in s.
IndexByte(s, c) ==
    IF \E i \in 1..Len(s) : s[i] = c
    THEN CHOOSE i \in 1..Len(s) : s[i] = c /\ \A j \in 1..(i-1) : s[j] # c
    ELSE 0

(***************************************************************************)
(* bufio.Reader over a regular file.  A reader record f holds the stream   *)
(* f.data, how the stream ends (f.endErr: "EOF", or "EIO" for a failing    *)
(* read), the position f.pos of the next unread byte and the file offset   *)
(* f.off up to which the buffer has been filled (pos <= off <= pos+BufSize)*)
(***************************************************************************)

\* The result of ReadSlice given the window win the buffer can hold from
\* f.pos and the index i of the first terminator in it (0: none).
ReadSliceAt(f, win, i) ==
    IF i > 0
    THEN [line |-> SubSeq(win, 1, i), err |-> "nil", pos |-> f.pos + i,
          off |-> IF f.pos + i <= f.off THEN f.off
                  ELSE Min(f.pos + BufSize, Len(f.data))]
    ELSE IF Len(f.data) - f.pos >= BufSize
    THEN [line |-> win, err |-> "ErrBufferFull", pos |-> f.pos + BufSize,
          off |-> f.pos + BufSize]
    ELSE [line |-> win, err |-> f.endErr, pos |-> Len(f.data), off |-> Len(f.data)]

ReadSliceIn(f, win) == ReadSliceAt(f, win, IndexByte(win, NL))

\* (*bufio.Reader).ReadSlice('\n'): the line through its terminator; the
\* whole buffer and ErrBufferFull when the buffer fills first; what is left
\* and the stream's end error when the stream ends first.
ReadSlice(f) ==
    ReadSliceIn(f, SubSeq(f.data, f.pos + 1, Min(f.pos + BufSize, Len(f.data))))

\* The reader after a read that left the buffer at r.pos, r.off.
Moved(f, r) == [f EXCEPT !.pos = r.pos, !.off = r.off]

\* (*bufio.Reader).ReadBytes('\n'): ReadSlice repeated over full buffers,
\* the fragments copied into one fresh slice.
RECURSIVE ReadBytesFrom(_, _)
ReadBytesStep(f, acc, rs) ==
    IF rs.err = "ErrBufferFull"
    THEN ReadBytesFrom(Moved(f, rs), acc \o rs.line)
    ELSE [bytes |-> acc \o rs.line, err |-> rs.err, pos |-> rs.pos, off |-> rs.off]

ReadBytesFrom(f, acc) == ReadBytesStep(f, acc, ReadSlice(f))

ReadBytes(f) == ReadBytesFrom(f, <<>>)

\* The file offset after (*bufio.Reader).Discard has filled the emptied
\* buffer as often as it takes to skip need more bytes.
RECURSIVE FillFor(_, _, _)
FillFor(off, need, L) ==
    IF need <= 0 \/ off >= L THEN off
    ELSE FillFor(Min(off + BufSize, L), need - (Min(off + BufSize, L) - off), L)

\* (*bufio.Reader).Discard(n), n > 0: skips n bytes, or what is left and
\* the stream's end error.
Discard(f, n) ==
    [skipped |-> Min(n, Len(f.data) - f.pos),
     err     |-> IF n <= Len(f.data) - f.pos THEN "nil" ELSE f.endErr,
     pos     |-> f.pos + Min(n, Len(f.data) - f.pos),
     off     |-> FillFor(f.off, n - (f.off - f.pos), Len(f.data))]

(***************************************************************************)
(* The decoders.  One record type serves both: kind is "fasta"             *)
(* (fastFastaReader) or "fastq" (fastFastqReader); closed is the state of  *)
(* the os.File f.f; lastSeqLen is used by the FASTQ decoder only.          *)
(***************************************************************************)

NewReader(data, endErr) ==
    [kind |-> "fasta", data |-> data, endErr |-> endErr, pos |-> 0, off |-> 0,
     lastErr |-> "errNotStarted", identifierBytes |-> <<>>, lastBytes |-> <<>>,
     lastSeqLen |-> 0, closed |-> FALSE]

\* fastqOpenFrom: the FASTQ decoder over the same file, stream and buffer.
fastqOpenFrom(f) == [rdr |-> [f EXCEPT !.kind = "fastq"], err |-> "nil"]

\* Open after os.Open and bufio.NewReader: Peek(1) has filled the buffer of
\* f and consumed nothing.
OpenPeeked(f) ==
    IF Len(f.data) = 0 THEN [rdr |-> f, err |-> f.endErr]
    ELSE IF f.data[1] = "@" THEN fastqOpenFrom(f)
    ELSE [rdr |-> f, err |-> "nil"]

\* Open, for an existing uncompressed file: '@' selects the FASTQ decoder,
\* anything else the FASTA decoder; an empty stream returns the decoder
\* together with Peek's error.
Open(data, endErr) ==
    OpenPeeked([NewReader(data, endErr) EXCEPT !.off = Min(BufSize, Len(data))])

\* f.identifierBytes, f.lastErr = f.br.ReadBytes('\n')
WithHeader(f, rb) ==
    [f EXCEPT !.identifierBytes = rb.bytes, !.lastErr = rb.err,
              !.pos = rb.pos, !.off = rb.off]

\* The first read of Next (both decoders): the marker line.
Started(f) ==
    IF f.lastErr = "errNotStarted" THEN WithHeader(f, ReadBytes(f)) ELSE f

\* fastFastaReader.Next after its first read.
FastaNextOn(g) ==
    IF g.lastErr = "EOF" THEN [rdr |-> [g EXCEPT !.closed = TRUE], ok |-> FALSE]
    ELSE IF g.lastErr # "nil" THEN [rdr |-> g, ok |-> FALSE]
    ELSE IF Len(g.identifierBytes) = 0 THEN [rdr |-> g, ok |-> FALSE]
    ELSE [rdr |-> g, ok |-> g.identifierBytes[1] = ">"]

\* fastFastaReader.Next
FastaNext(f) == FastaNextOn(Started(f))

\* f.lastBytes, f.lastErr = f.br.ReadSlice('\n'), ErrBufferFull becoming nil.
WithSlice(f, rs) ==
    [f EXCEPT !.lastBytes = rs.line,
              !.lastErr = IF rs.err = "ErrBufferFull" THEN "nil" ELSE rs.err,
              !.pos = rs.pos, !.off = rs.off]

\* The loop of Sequence (both decoders): lines are appended, their last byte
\* cut off, until an error, an empty read or a line starting with stop.
RECURSIVE SequenceLoop(_, _, _)
SequenceStep(g, seq, stop) ==
    IF g.lastErr # "nil" THEN [rdr |-> g, seq |-> seq, marker |-> FALSE]
    ELSE IF Len(g.lastBytes) = 0 THEN [rdr |-> g, seq |-> seq, marker |-> FALSE]
    ELSE IF g.lastBytes[1] = stop THEN [rdr |-> g, seq |-> seq, marker |-> TRUE]
    ELSE SequenceLoop(g, seq \o SubSeq(g.lastBytes, 1, Len(g.lastBytes) - 1), stop)

SequenceLoop(f, seq, stop) == SequenceStep(WithSlice(f, ReadSlice(f)), seq, stop)

\* Where fastFastaReader.Sequence returns: a '>' line becomes the next
\* identifier line.
FastaSequenceEnd(r) ==
    [rdr |-> IF r.marker THEN [r.rdr EXCEPT !.identifierBytes = r.rdr.lastBytes]
             ELSE r.rdr,
     seq |-> r.seq]

\* fastFastaReader.Sequence
FastaSequence(f) == FastaSequenceEnd(SequenceLoop(f, <<>>, ">"))

\* skipped, f.lastErr = f.br.Discard(f.lastSeqLen); f.lastSeqLen -= skipped
WithDiscard(f, d) ==
    [f EXCEPT !.lastSeqLen = f.lastSeqLen - d.skipped, !.lastErr = d.err,
              !.pos = d.pos, !.off = d.off]

\* The quality skip of fastFastqReader.Next: Discard until lastSeqLen is 0
\* or an error occurs.
RECURSIVE SkipQuality(_)
SkipQuality(f) ==
    IF f.lastSeqLen > 0 /\ f.lastErr = "nil"
    THEN SkipQuality(WithDiscard(f, Discard(f, f.lastSeqLen)))
    ELSE f

\* The resynchronisation of fastFastqReader.Next: lines are read until one
\* starts with '@', is empty, or an error occurs.
RECURSIVE FindHeader(_)
FindHeaderStep(g) ==
    IF Len(g.identifierBytes) > 0 /\ g.identifierBytes[1] # "@" /\ g.lastErr = "nil"
    THEN FindHeader(g)
    ELSE g

FindHeader(f) == FindHeaderStep(WithHeader(f, ReadBytes(f)))

\* The end of fastFastqReader.Next.
FastqNextEnd(h) ==
    IF Len(h.identifierBytes) = 0 THEN [rdr |-> h, ok |-> FALSE]
    ELSE [rdr |-> h, ok |-> h.identifierBytes[1] = "@"]

\* fastFastqReader.Next once the quality scores have been discarded.
FastqNextSkipped(s) ==
    IF s.lastErr # "nil" THEN [rdr |-> s, ok |-> FALSE]
    ELSE FastqNextEnd(FindHeader(s))

\* fastFastqReader.Next after its first read.
FastqNextOn(g) ==
    IF g.lastErr = "EOF" THEN [rdr |-> [g EXCEPT !.closed = TRUE], ok |-> FALSE]
    ELSE IF g.lastErr # "nil" THEN [rdr |-> g, ok |-> FALSE]
    ELSE IF g.lastSeqLen > 0 THEN FastqNextSkipped(SkipQuality(g))
    ELSE FastqNextEnd(g)

\* fastFastqReader.Next
FastqNext(f) == FastqNextOn(Started(f))

\* Where fastFastqReader.Sequence returns: a '+' line sets lastSeqLen.
FastqSequenceEnd(r) ==
    [rdr |-> IF r.marker THEN [r.rdr EXCEPT !.lastSeqLen = Len(r.seq)] ELSE r.rdr,
     seq |-> r.seq]

\* fastFastqReader.Sequence
FastqSequence(f) == FastqSequenceEnd(SequenceLoop(f, <<>>, "+"))

\* The loop of SequenceBytes (both decoders): a line of more than one byte
\* starting with stop ends it; any other line of more than one byte is passed
\* to the callback without its last byte; then io.EOF ends it with a nil
\* result and any other error with that error.
RECURSIVE BytesLoop(_, _, _)
BytesTail(g, seq, stop) ==
    IF g.lastErr = "EOF" THEN [rdr |-> g, seq |-> seq, marker |-> FALSE, err |-> "nil"]
    ELSE IF g.lastErr # "nil"
    THEN [rdr |-> g, seq |-> seq, marker |-> FALSE, err |-> g.lastErr]
    ELSE BytesLoop(g, seq, stop)

BytesStep(g, seq, stop) ==
    IF Len(g.lastBytes) > 1 /\ g.lastBytes[1] = stop
    THEN [rdr |-> g, seq |-> seq, marker |-> TRUE, err |-> "nil"]
    ELSE IF Len(g.lastBytes) > 1
    THEN BytesTail(g, seq \o SubSeq(g.lastBytes, 1, Len(g.lastBytes) - 1), stop)
    ELSE BytesTail(g, seq, stop)

BytesLoop(f, seq, stop) == BytesStep(WithSlice(f, ReadSlice(f)), seq, stop)

\* Where fastFastaReader.SequenceBytes returns: a '>' line becomes the next
\* identifier line.
FastaSequenceBytesEnd(r) ==
    [r EXCEPT !.rdr = IF r.marker
                      THEN [r.rdr EXCEPT !.identifierBytes = r.rdr.lastBytes]
                      ELSE r.rdr]

\* fastFastaReader.SequenceBytes; seq is what the callback was given.
FastaSequenceBytes(f) == FastaSequenceBytesEnd(BytesLoop(f, <<>>, ">"))

\* fastFastqReader.SequenceBytes counts each byte it passes on: f.lastSeqLen++.
FastqSequenceBytesEnd(n, r) ==
    [r EXCEPT !.rdr = [r.rdr EXCEPT !.lastSeqLen = n + Len(r.seq)]]

\* fastFastqReader.SequenceBytes; seq is what the callback was given.
FastqSequenceBytes(f) == FastqSequenceBytesEnd(f.lastSeqLen, BytesLoop(f, <<>>, "+"))

\* The Reader interface, dispatched on the decoder Open returned.
RdrNext(f) == IF f.kind = "fastq" THEN FastqNext(f) ELSE FastaNext(f)

RdrSequence(f) == IF f.kind = "fastq" THEN FastqSequence(f) ELSE FastaSequence(f)

RdrSequenceBytes(f) ==
    IF f.kind = "fastq" THEN FastqSequenceBytes(f) ELSE FastaSequenceBytes(f)

\* Identifier (both decoders): identifierBytes without its first and last byte.
Identifier(f) == SubSeq(f.identifierBytes, 2, Len(f.identifierBytes) - 1)

\* Progress (both decoders), in whole percent: -1 when Stat fails (the file
\* is closed) or the file is empty, else the file offset over the size.
Progress(f) ==
    IF f.closed \/ Len(f.data) <= 0 THEN -1 ELSE (f.off * 100) \div Len(f.data)

(***************************************************************************)
(* cmd/fq2fa: the conversion pipeline.                                     *)
(***************************************************************************)

\* Most input files, CPUs (runtime.NumCPU), outputs (-n) and input bytes of a run.
MaxFiles == 2
MaxCPU == 2
MaxOut == 2
MaxInput == 21
\* Capacity of each destination's channel: make(chan Seq, 5).
SubCap == 5
\* Output column width of seqWriter.
WrapWidth == 80
\* Most workers statusline has a format for: case ncpu <= 100.
FmtLimit == 100

\* Input files a run may be given: their content and how reading them ends.
Fixtures ==
    << [data |-> <<">", "a", NL, "A", NL, ">", "b", NL, "C", NL>>, endErr |-> "EOF"],
       [data |-> <<"@", "r", NL, "A", "C", NL, "+", NL, "!", "!", NL>>, endErr |-> "EOF"],
       [data |-> <<"X", NL, ">", "a", NL, "A", NL>>, endErr |-> "EOF"],
       [data |-> <<">", "a", NL, "A", NL>>, endErr |-> "EIO"],
       [data |-> <<">", NL, ">", NL, ">", NL, ">", NL, ">", NL, ">", NL,
                   ">", NL, ">", NL, ">", NL, ">", NL, ">", NL>>, endErr |-> "EOF"] >>

VARIABLES
    \* the command line and the machine
    files,      \* flag.Args(): a sequence of indexes into Fixtures
    numCPU,     \* runtime.NumCPU()
    noutputs,   \* -n
    gz,         \* whether the output pattern ends in "gz"
    \* the process
    status,     \* "running", "ok" (main returned) or "panic"
    \* main / fanFiles
    mpc, mi, fnClosed, seqClosed, wg, wg2,
    \* convertFile, one per cpu
    wpc, wfn, wk, wrdr, wpct, wmsg,
    \* fanWriters
    fpc, idx, fi, fheld, subs, subClosed,
    \* seqWriter, one per output
    spc, outfile, fopen, zopen,
    \* statusline
    statuses,
    \* history, read by the properties only
    produced,   \* Next() calls that returned true in convertFile
    received,   \* the records received from seqChan, in order
    handed,     \* per destination, the records fanWriters sent to it, in order
    wrote,      \* per destination, the records its writer wrote, in order
    takenBy,    \* per input file, the workers that received it from fnChan
    finalRdr,   \* per input file, the decoder when its loop ended normally
    logged,     \* the counts reported by log.Printf
    \* the decoder driven on its own
    dpc, drdr, dopenErr, drecs,
    dlog,       \* the calls made on the decoder and what they returned
    dwant       \* what the stream was built from: its format and its records

cfgVars == <<files, numCPU, noutputs, gz>>
mainVars == <<mpc, mi, fnClosed, seqClosed, wg, wg2>>
workerVars == <<wpc, wfn, wk, wrdr, wpct, wmsg>>
fanVars == <<fpc, idx, fi, fheld, subs, subClosed>>
writerVars == <<spc, outfile, fopen, zopen>>
histVars == <<produced, received, handed, wrote, takenBy, finalRdr, logged>>
decVars == <<dpc, drdr, dopenErr, drecs, dlog, dwant>>
vars == <<cfgVars, status, mainVars, workerVars, fanVars, writerVars, statuses,
          histVars, decVars>>

\* The decoders Open returns for the input files.
Opened == {Open(Fixtures[i].data, Fixtures[i].endErr) : i \in 1..Len(Fixtures)}

\* The decoder states at the head of convertFile's loop, from state f on.
RECURSIVE LoopHeads(_)
LoopHeads(f) ==
    {f} \cup UNION {IF n.ok
                    THEN UNION {LoopHeads(s.rdr) : s \in {RdrSequence(n.rdr)}}
                    ELSE {} : n \in {RdrNext(f)}}

HeadStates == UNION {LoopHeads(o.rdr) : o \in {x \in Opened : x.err = "nil"}}

\* rdr.Next() and rdr.Sequence() on the decoder states convertFile reaches,
\* evaluated once.
NextOf == [f \in HeadStates |-> RdrNext(f)]

SequenceOf == [f \in {NextOf[h].rdr : h \in {x \in HeadStates : NextOf[x].ok}}
                 |-> RdrSequence(f)]

RECURSIVE SumBytes(_, _)
\* The bytes of the first n files of the list fl together.
SumBytes(fl, n) ==
    IF n = 0 THEN 0 ELSE Len(Fixtures[fl[n]].data) + SumBytes(fl, n - 1)

\* The command lines checked: up to MaxFiles of the short files in any order
\* with at most MaxInput bytes of input together, or the long file (the last
\* of Fixtures) alone.
FileLists ==
    {<<Len(Fixtures)>>}
        \cup {fl \in UNION {[1..nf -> 1..(Len(Fixtures) - 1)] : nf \in 1..MaxFiles} :
                SumBytes(fl, Len(fl)) <= MaxInput}

CPUs == 0..(MaxCPU - 1)
Outs == 0..(MaxOut - 1)
NoRdr == NewReader(<<>>, "EOF")
NoSeq == [Identifier |-> <<>>, Sequence |-> <<>>, src |-> <<0, 0>>]
\* A stream that was not built from records.
Raw == [form |-> "raw", recs |-> <<>>, term |-> TRUE, w |-> 0, q |-> "!", qw |-> 0]

\* nc in main: min(runtime.NumCPU(), len(files)).
nc == Min(numCPU, Len(files))

\* Whether fq2fa's -n takes the fanWriters branch of main.
Fanned == noutputs # 1

\* The pipeline's variables right after main has started the writer (or
\* fanWriters) and statusline: wg.Add(1) is done, fanFiles is about to start.
PipelineInit ==
    /\ status = "running"
    /\ mpc = "spawn" /\ mi = 0 /\ fnClosed = FALSE /\ seqClosed = FALSE
    /\ wg = 1 /\ wg2 = 0
    /\ wpc = [c \in CPUs |-> "unborn"]
    /\ wfn = [c \in CPUs |-> 0]
    /\ wk = [c \in CPUs |-> 0]
    /\ wrdr = [c \in CPUs |-> NoRdr]
    /\ wpct = [c \in CPUs |-> 0]
    /\ wmsg = [c \in CPUs |-> NoSeq]
    /\ fpc = IF noutputs # 1 THEN "spawn" ELSE "none"
    /\ idx = 0 /\ fi = 0 /\ fheld = NoSeq
    /\ subs = [d \in Outs |-> <<>>]
    /\ subClosed = [d \in Outs |-> FALSE]
    /\ spc = [d \in Outs |-> IF noutputs = 1 /\ d = 0 THEN "recv" ELSE "unborn"]
    /\ outfile = [d \in Outs |-> <<>>]
    /\ fopen = [d \in Outs |-> noutputs = 1 /\ d = 0]
    /\ zopen = [d \in Outs |-> noutputs = 1 /\ d = 0 /\ gz]
    /\ statuses = [c \in CPUs |-> 0]
    /\ produced = 0 /\ received = <<>>
    /\ handed = [d \in Outs |-> <<>>]
    /\ wrote = [d \in Outs |-> <<>>]
    /\ takenBy = [i \in 1..Len(files) |-> <<>>]
    /\ finalRdr = [i \in 1..Len(files) |-> NoRdr]
    /\ logged = <<>>

Init ==
    /\ files \in FileLists
    /\ numCPU \in 1..MaxCPU
    /\ noutputs \in 1..MaxOut
    /\ gz \in BOOLEAN
    /\ PipelineInit
    /\ dpc = "off" /\ drdr = NoRdr /\ dopenErr = "nil" /\ drecs = <<>>
    /\ dlog = <<>> /\ dwant = Raw

Running == status = "running"

Panic == status' = "panic"

----
\* main and fanFiles

\* fanFiles, the first loop: wg2.Add(1); go convertFile(i, ...).
MainSpawnWorker ==
    /\ Running /\ mpc = "spawn"
    /\ wg2' = wg2 + 1
    /\ wpc' = [wpc EXCEPT ![mi] = "recv"]
    /\ mi' = IF mi + 1 < nc THEN mi + 1 ELSE 1
    /\ mpc' = IF mi + 1 < nc THEN "spawn" ELSE "feed"
    /\ UNCHANGED <<cfgVars, status, fnClosed, seqClosed, wg, wfn, wk, wrdr, wpct, wmsg,
                   fanVars, writerVars, statuses, histVars, decVars>>

\* A fanFiles that forgets close(fnChan).
MainForgetCloseFn ==
    /\ Running /\ mpc = "closeFn"
    /\ mpc' = "wait2"
    /\ UNCHANGED <<cfgVars, status, mi, fnClosed, seqClosed, wg, wg2, workerVars,
                   fanVars, writerVars, statuses, histVars, decVars>>

\* fanFiles: close(fnChan) once every filename has been sent.
MainCloseFn ==
    /\ Running /\ mpc = "closeFn"
    /\ fnClosed' = TRUE
    /\ mpc' = "wait2"
    /\ UNCHANGED <<cfgVars, status, mi, seqClosed, wg, wg2, workerVars, fanVars,
                   writerVars, statuses, histVars, decVars>>

\* A fanFiles that returns without wg2.Wait().
MainNoWaitWorkers ==
    /\ Running /\ mpc = "wait2"
    /\ mpc' = "closeSeq"
    /\ UNCHANGED <<cfgVars, status, mi, fnClosed, seqClosed, wg, wg2, workerVars,
                   fanVars, writerVars, statuses, histVars, decVars>>

\* fanFiles: wg2.Wait() returns and fanFiles with it.
MainWaitWorkers ==
    /\ Running /\ mpc = "wait2"
    /\ wg2 = 0
    /\ mpc' = "closeSeq"
    /\ UNCHANGED <<cfgVars, status, mi, fnClosed, seqClosed, wg, wg2, workerVars,
                   fanVars, writerVars, statuses, histVars, decVars>>

\* main: close(seqChan).
MainCloseSeq ==
    /\ Running /\ mpc = "closeSeq"
    /\ seqClosed' = TRUE
    /\ mpc' = "wait"
    /\ UNCHANGED <<cfgVars, status, mi, fnClosed, wg, wg2, workerVars, fanVars,
                   writerVars, statuses, histVars, decVars>>

\* main: wg.Wait() returns, main returns and the process exits.
MainWait ==
    /\ Running /\ mpc = "wait"
    /\ wg = 0
    /\ mpc' = "exit"
    /\ status' = "ok"
    /\ UNCHANGED <<cfgVars, mi, fnClosed, seqClosed, wg, wg2, workerVars, fanVars,
                   writerVars, statuses, histVars, decVars>>

----
\* convertFile

\* A loop that sends the same filename again.
SameFileIndex(i) == i

\* The index fanFiles' range loop sends after index i.
NextFileIndex(i) == i + 1

\* The worker's side of receiving a filename: goseq.Open(fn) returned o;
\* panic(err) when it failed.
WorkerOpened(c, o) ==
    IF o.err # "nil"
    THEN Panic /\ UNCHANGED <<wpc, wrdr>>
    ELSE /\ wrdr' = [wrdr EXCEPT ![c] = o.rdr]
         /\ wpc' = [wpc EXCEPT ![c] = "next"]
         /\ UNCHANGED status

\* for fn := range fnChan, meeting fanFiles' fnChan <- fn; then goseq.Open(fn).
WorkerTakeFile(c) ==
    /\ Running /\ wpc[c] = "recv"
    /\ mpc = "feed"
    /\ mi' = NextFileIndex(mi)
    /\ mpc' = IF NextFileIndex(mi) > Len(files) THEN "closeFn" ELSE "feed"
    /\ takenBy' = [takenBy EXCEPT ![mi] = Append(@, c)]
    /\ wfn' = [wfn EXCEPT ![c] = mi]
    /\ wk' = [wk EXCEPT ![c] = 0]
    /\ WorkerOpened(c, Open(Fixtures[files[mi]].data, Fixtures[files[mi]].endErr))
    /\ UNCHANGED <<cfgVars, fnClosed, seqClosed, wg, wg2, wpct, wmsg, fanVars,
                   writerVars, statuses, produced, received, handed, wrote, finalRdr,
                   logged, decVars>>

\* The range loop ends on the closed fnChan: wg2.Done().
WorkerDone(c) ==
    /\ Running /\ wpc[c] = "recv"
    /\ fnClosed
    /\ wg2' = wg2 - 1
    /\ wpc' = [wpc EXCEPT ![c] = "done"]
    /\ UNCHANGED <<cfgVars, status, mpc, mi, fnClosed, seqClosed, wg, wfn, wk, wrdr,
                   wpct, wmsg, fanVars, writerVars, statuses, histVars, decVars>>

\* The loop of convertFile once rdr.Next() returned r: when true,
\* rdr.Progress() is taken for the sample; when false, rdr.Err() decides
\* between panic and the next file.
WorkerAdvanced(c, r) ==
    /\ wrdr' = [wrdr EXCEPT ![c] = r.rdr]
    /\ IF r.ok
       THEN /\ wpct' = [wpct EXCEPT ![c] = Progress(r.rdr)]
            /\ wk' = [wk EXCEPT ![c] = @ + 1]
            /\ produced' = produced + 1
            /\ wpc' = [wpc EXCEPT ![c] = "report"]
            /\ UNCHANGED <<status, finalRdr>>
       ELSE IF r.rdr.lastErr \notin {"nil", "EOF"}
       THEN Panic /\ UNCHANGED <<wpct, wk, produced, wpc, finalRdr>>
       ELSE /\ finalRdr' = [finalRdr EXCEPT ![wfn[c]] = r.rdr]
            /\ wpc' = [wpc EXCEPT ![c] = "recv"]
            /\ UNCHANGED <<status, wpct, wk, produced>>

\* for rdr.Next() { ... }; rdr.Err()
WorkerNext(c) ==
    /\ Running /\ wpc[c] = "next"
    /\ WorkerAdvanced(c, NextOf[wrdr[c]])
    /\ UNCHANGED <<cfgVars, mainVars, wfn, wmsg, fanVars, writerVars, statuses,
                   received, handed, wrote, takenBy, logged, decVars>>

\* The operands of seqChan <- Seq{...}: rdr.Identifier(), and s as
\* rdr.Sequence() returned it.
WorkerRecord(c, s) ==
    /\ wmsg' = [wmsg EXCEPT ![c] = [Identifier |-> Identifier(wrdr[c]),
                                    Sequence |-> s.seq,
                                    src |-> <<wfn[c], wk[c]>>]]
    /\ wrdr' = [wrdr EXCEPT ![c] = s.rdr]

\* reporter <- st{cpu, pct}, met by statusline's receive (statuses[s.cpu] =
\* s.pct); then the operands of the send on seqChan are evaluated.
WorkerReport(c) ==
    /\ Running /\ wpc[c] = "report"
    /\ statuses' = [statuses EXCEPT ![c] = wpct[c]]
    /\ WorkerRecord(c, SequenceOf[wrdr[c]])
    /\ wpc' = [wpc EXCEPT ![c] = "send"]
    /\ UNCHANGED <<cfgVars, status, mainVars, wfn, wk, wpct, fanVars, writerVars,
                   histVars, decVars>>

----
\* seqWriter

RECURSIVE WrapLinesEager(_)
\* A wrap loop that also cuts a line of exactly 80 bytes: len(s.Sequence) >= 80.
WrapLinesEager(s) ==
    IF Len(s) >= WrapWidth
    THEN SubSeq(s, 1, WrapWidth) \o <<NL>>
             \o WrapLinesEager(SubSeq(s, WrapWidth + 1, Len(s)))
    ELSE s \o <<NL>>

RECURSIVE WrapLines(_)
\* The sequence lines of one record: 80 bytes while more than 80 are left,
\* then the rest, each by fmt.Fprintln.
WrapLines(s) ==
    IF Len(s) > WrapWidth
    THEN SubSeq(s, 1, WrapWidth) \o <<NL>> \o WrapLines(SubSeq(s, WrapWidth + 1, Len(s)))
    ELSE s \o <<NL>>

\* What seqWriter writes for one record.
WriteSeq(s) == <<">">> \o s.Identifier \o <<NL>> \o WrapLines(s.Sequence)

\* seqChan <- Seq{...} with -n 1, met by seqWriter's range over seqChan; the
\* writer writes the record.  A send on the closed channel panics.
WorkerSendToWriter(c) ==
    /\ Running /\ wpc[c] = "send" /\ ~Fanned
    /\ IF seqClosed
       THEN Panic /\ UNCHANGED <<wpc, received, outfile, wrote>>
       ELSE /\ spc[0] = "recv"
            /\ received' = Append(received, wmsg[c].src)
            /\ outfile' = [outfile EXCEPT ![0] = @ \o WriteSeq(wmsg[c])]
            /\ wrote' = [wrote EXCEPT ![0] = Append(@, wmsg[c].src)]
            /\ wpc' = [wpc EXCEPT ![c] = "next"]
            /\ UNCHANGED status
    /\ UNCHANGED <<cfgVars, mainVars, wfn, wk, wrdr, wpct, wmsg, fanVars, spc, fopen,
                   zopen, statuses, produced, handed, takenBy, finalRdr, logged, decVars>>

\* The channel seqWriter d ranges over is closed and drained.
InputDone(d) ==
    IF Fanned THEN subClosed[d] /\ subs[d] = <<>> ELSE seqClosed

\* seqWriter after its loop: Flush and Close of the gzip writer if there is
\* one, then f.Close().
WriterFinish(d) ==
    /\ Running /\ spc[d] = "recv"
    /\ InputDone(d)
    /\ zopen' = [zopen EXCEPT ![d] = FALSE]
    /\ fopen' = [fopen EXCEPT ![d] = FALSE]
    /\ spc' = [spc EXCEPT ![d] = "closed"]
    /\ UNCHANGED <<cfgVars, status, mainVars, workerVars, fanVars, outfile, statuses,
                   histVars, decVars>>

\* seqWriter: wg.Done().
WriterDone(d) ==
    /\ Running /\ spc[d] = "closed"
    /\ wg' = wg - 1
    /\ spc' = [spc EXCEPT ![d] = "end"]
    /\ UNCHANGED <<cfgVars, status, mpc, mi, fnClosed, seqClosed, wg2, workerVars,
                   fanVars, outfile, fopen, zopen, statuses, histVars, decVars>>

\* A writer that takes the newest record of its channel instead of the oldest.
WriterTakeNewest(d) ==
    /\ Running /\ spc[d] = "recv" /\ Fanned
    /\ subs[d] # <<>>
    /\ subs' = [subs EXCEPT ![d] = SubSeq(@, 1, Len(@) - 1)]
    /\ outfile' = [outfile EXCEPT ![d] = @ \o WriteSeq(subs[d][Len(subs[d])])]
    /\ wrote' = [wrote EXCEPT ![d] = Append(@, subs[d][Len(subs[d])].src)]
    /\ UNCHANGED <<cfgVars, status, mainVars, workerVars, fpc, idx, fi, fheld,
                   subClosed, spc, fopen, zopen, statuses, produced, received, handed,
                   takenBy, finalRdr, logged, decVars>>

\* seqWriter ranging over its destination's buffered channel: one record is
\* taken and written.
WriterTake(d) ==
    /\ Running /\ spc[d] = "recv" /\ Fanned
    /\ subs[d] # <<>>
    /\ subs' = [subs EXCEPT ![d] = Tail(@)]
    /\ outfile' = [outfile EXCEPT ![d] = @ \o WriteSeq(Head(subs[d]))]
    /\ wrote' = [wrote EXCEPT ![d] = Append(@, Head(subs[d]).src)]
    /\ UNCHANGED <<cfgVars, status, mainVars, workerVars, fpc, idx, fi, fheld,
                   subClosed, spc, fopen, zopen, statuses, produced, received, handed,
                   takenBy, finalRdr, logged, decVars>>

----
\* fanWriters

\* A sharder whose counter is one ahead.
ShardOfNext(i, n) == (i + 1) % n

\* The destination of the record with index i among n: subs[idx%n].
ShardOf(i, n) == i % n

\* A fanWriters that starts its writers without wg.Add(1).
FanSpawnNoAdd ==
    /\ Running /\ fpc = "spawn"
    /\ spc' = [spc EXCEPT ![fi] = "recv"]
    /\ fopen' = [fopen EXCEPT ![fi] = TRUE]
    /\ zopen' = [zopen EXCEPT ![fi] = gz]
    /\ fi' = IF fi + 1 < noutputs THEN fi + 1 ELSE 0
    /\ fpc' = IF fi + 1 < noutputs THEN "spawn" ELSE "recv"
    /\ UNCHANGED <<cfgVars, status, mainVars, workerVars, idx, fheld, subs, subClosed,
                   outfile, statuses, histVars, decVars>>

\* The first loop: wg.Add(1); subs[i] = make(chan Seq, 5); go seqWriter(...),
\* which creates its file (and the gzip writer).
FanSpawn ==
    /\ Running /\ fpc = "spawn"
    /\ wg' = wg + 1
    /\ spc' = [spc EXCEPT ![fi] = "recv"]
    /\ fopen' = [fopen EXCEPT ![fi] = TRUE]
    /\ zopen' = [zopen EXCEPT ![fi] = gz]
    /\ fi' = IF fi + 1 < noutputs THEN fi + 1 ELSE 0
    /\ fpc' = IF fi + 1 < noutputs THEN "spawn" ELSE "recv"
    /\ UNCHANGED <<cfgVars, status, mpc, mi, fnClosed, seqClosed, wg2, workerVars,
                   idx, fheld, subs, subClosed, outfile, statuses, histVars, decVars>>

\* seqChan <- Seq{...} with -n above 1, met by fanWriters' range over seqChan.
\* A send on the closed channel panics.
WorkerSendToFan(c) ==
    /\ Running /\ wpc[c] = "send" /\ Fanned
    /\ IF seqClosed
       THEN Panic /\ UNCHANGED <<wpc, received, fheld, fpc>>
       ELSE /\ fpc = "recv"
            /\ received' = Append(received, wmsg[c].src)
            /\ fheld' = wmsg[c]
            /\ fpc' = "fwd"
            /\ wpc' = [wpc EXCEPT ![c] = "next"]
            /\ UNCHANGED status
    /\ UNCHANGED <<cfgVars, mainVars, wfn, wk, wrdr, wpct, wmsg, idx, fi, subs,
                   subClosed, writerVars, statuses, produced, handed, wrote, takenBy,
                   finalRdr, logged, decVars>>

\* A send that drops the record when the destination's channel is full.
FanSendOrDrop(d) ==
    IF Len(subs[d]) < SubCap
    THEN /\ subs' = [subs EXCEPT ![d] = Append(@, fheld)]
         /\ handed' = [handed EXCEPT ![d] = Append(@, fheld.src)]
    ELSE UNCHANGED <<subs, handed>>

\* The send of the held record on subs[d], which blocks while it is full.
FanSendTo(d) ==
    /\ Len(subs[d]) < SubCap
    /\ subs' = [subs EXCEPT ![d] = Append(@, fheld)]
    /\ handed' = [handed EXCEPT ![d] = Append(@, fheld.src)]

\* subs[idx%n] <- s; idx++
FanForward ==
    /\ Running /\ fpc = "fwd"
    /\ FanSendTo(ShardOf(idx, noutputs))
    /\ idx' = idx + 1
    /\ fheld' = NoSeq
    /\ fpc' = "recv"
    /\ UNCHANGED <<cfgVars, status, mainVars, workerVars, fi, subClosed, writerVars,
                   statuses, produced, received, wrote, takenBy, finalRdr, logged,
                   decVars>>

\* The range over seqChan ends: seqChan is closed.
FanSeesClosed ==
    /\ Running /\ fpc = "recv"
    /\ seqClosed
    /\ fpc' = "close"
    /\ fi' = 0
    /\ UNCHANGED <<cfgVars, status, mainVars, workerVars, idx, fheld, subs, subClosed,
                   writerVars, statuses, histVars, decVars>>

\* The last loop: close(subs[i]).
FanClose ==
    /\ Running /\ fpc = "close"
    /\ subClosed' = [subClosed EXCEPT ![fi] = TRUE]
    /\ fi' = fi + 1
    /\ fpc' = IF fi + 1 < noutputs THEN "close" ELSE "done"
    /\ UNCHANGED <<cfgVars, status, mainVars, workerVars, idx, fheld, subs,
                   writerVars, statuses, histVars, decVars>>

\* wg.Done()
FanDone ==
    /\ Running /\ fpc = "done"
    /\ wg' = wg - 1
    /\ fpc' = "log"
    /\ UNCHANGED <<cfgVars, status, mpc, mi, fnClosed, seqClosed, wg2, workerVars,
                   idx, fi, fheld, subs, subClosed, writerVars, statuses, histVars,
                   decVars>>

\* log.Printf("Split %d sequences.", idx)
FanLog ==
    /\ Running /\ fpc = "log"
    /\ logged' = Append(logged, idx)
    /\ fpc' = "end"
    /\ UNCHANGED <<cfgVars, status, mainVars, workerVars, idx, fi, fheld, subs,
                   subClosed, writerVars, statuses, produced, received, handed, wrote,
                   takenBy, finalRdr, decVars>>

----
\* statusline

\* The ticker case of statusline's select: the line is rendered to stderr
\* from statuses by fmtPct, which the switch on ncpu leaves nil above
\* FmtLimit workers (the call then panics); nothing else of the program's
\* state changes.
StatusTick ==
    /\ Running
    /\ IF nc > FmtLimit
       THEN Panic /\ UNCHANGED <<cfgVars, mainVars, workerVars, fanVars, writerVars,
                                  statuses, histVars, decVars>>
       ELSE UNCHANGED vars

Next ==
    \/ MainSpawnWorker \/ MainCloseFn \/ MainWaitWorkers \/ MainCloseSeq \/ MainWait
    \/ \E c \in CPUs : WorkerTakeFile(c)
    \/ \E c \in CPUs : WorkerDone(c)
    \/ \E c \in CPUs : WorkerNext(c)
    \/ \E c \in CPUs : WorkerReport(c)
    \/ \E c \in CPUs : WorkerSendToWriter(c)
    \/ \E c \in CPUs : WorkerSendToFan(c)
    \/ \E d \in Outs : WriterTake(d)
    \/ \E d \in Outs : WriterFinish(d)
    \/ \E d \in Outs : WriterDone(d)
    \/ FanSpawn \/ FanForward \/ FanSeesClosed \/ FanClose \/ FanDone \/ FanLog
    \/ StatusTick

Spec == Init /\ [][Next]_vars

\* Some runnable goroutine is eventually scheduled.
FairSpec == Spec /\ WF_vars(Next)

(***************************************************************************)
(* A decoder driven on its own by the canonical loop of the package        *)
(* documentation:  rdr, err := Open(fn); for rdr.Next() { rdr.Identifier();*)
(* rdr.Sequence() }; rdr.Err().                                            *)
(***************************************************************************)

\* Longest sequence of a record of a generated well-formed stream.
MaxSeq == 2

Alphabet == {">", "@", "+", NL, "A"}

ByteStrings(n) == UNION {[1..k -> Alphabet] : k \in 0..n}

RECURSIVE Concat(_)
Concat(ss) == IF ss = <<>> THEN <<>> ELSE Head(ss) \o Concat(Tail(ss))

Bases(n) == [i \in 1..n |-> "A"]

Quals(n) == [i \in 1..n |-> "!"]

\* One FASTA record and one FASTQ record with a sequence of n bases, each
\* block on one line.
FastaRecord(n) == <<">", "s", NL>> \o Bases(n) \o <<NL>>

FastqRecord(n) == <<"@", "r", NL>> \o Bases(n) \o <<NL, "+", NL>> \o Quals(n) \o <<NL>>

FastaStreams ==
    UNION {{Concat([i \in 1..k |-> FastaRecord(ns[i])]) : ns \in [1..k -> 0..MaxSeq]}
             : k \in 1..MaxRecs}

FastqStreams ==
    UNION {{Concat([i \in 1..k |-> FastqRecord(ns[i])]) : ns \in [1..k -> 0..MaxSeq]}
             : k \in 1..MaxRecs}

Streams == ByteStrings(MaxLen) \cup FastaStreams \cup FastqStreams

InitDec ==
    /\ files = <<>> /\ numCPU = 1 /\ noutputs = 1 /\ gz = FALSE
    /\ PipelineInit
    /\ \E data \in Streams, endErr \in {"EOF", "EIO"} : drdr = NewReader(data, endErr)
    /\ dpc = "start" /\ dopenErr = "nil" /\ drecs = <<>>
    /\ dlog = <<>> /\ dwant = Raw

pipeVars == <<cfgVars, status, mainVars, workerVars, fanVars, writerVars, statuses,
              histVars>>

\* What Open returned.
DecOpened(o) ==
    /\ drdr' = o.rdr
    /\ dopenErr' = o.err
    /\ dpc' = IF o.err # "nil" THEN "openfail" ELSE "loop"

\* rdr, err := Open(fn)
DecOpen ==
    /\ dpc = "start"
    /\ DecOpened(Open(drdr.data, drdr.endErr))
    /\ UNCHANGED <<drecs, dlog, dwant, pipeVars>>

\* What rdr.Next() returned.
DecAdvanced(r) ==
    /\ drdr' = r.rdr
    /\ dpc' = IF r.ok THEN "body" ELSE "end"

\* for rdr.Next()
DecNext ==
    /\ dpc = "loop"
    /\ DecAdvanced(RdrNext(drdr))
    /\ UNCHANGED <<dopenErr, drecs, dlog, dwant, pipeVars>>

\* The record of the loop body, s being what rdr.Sequence() returned.
DecEmitted(s) ==
    /\ drecs' = Append(drecs, [Identifier |-> Identifier(drdr), Sequence |-> s.seq])
    /\ drdr' = s.rdr

\* rdr.Identifier(); rdr.Sequence()
DecRecord ==
    /\ dpc = "body"
    /\ DecEmitted(RdrSequence(drdr))
    /\ dpc' = "loop"
    /\ UNCHANGED <<dopenErr, dlog, dwant, pipeVars>>

NextDec == DecOpen \/ DecNext \/ DecRecord

SpecDec == InitDec /\ [][NextDec]_vars

(***************************************************************************)
(* The same loop over streams built from known records, in the line        *)
(* layouts the formats allow.                                              *)
(***************************************************************************)

\* The i-th base of a generated sequence and the sequence of n bases.
Base(i) == <<"A", "C", "G", "T">>[((i - 1) % 4) + 1]

Bases4(n) == [i \in 1..n |-> Base(i)]

\* The identifier of the j-th record of a generated stream.
IdOf(j) == <<<<"a">>, <<"b">>, <<"c">>, <<"d">>>>[j]

\* The block s in lines of w bytes (w = 0: on one line), each terminated;
\* an empty block is one empty line.
RECURSIVE Wrapped(_, _)
Wrapped(s, w) ==
    IF w = 0 \/ Len(s) <= w THEN s \o <<NL>>
    ELSE SubSeq(s, 1, w) \o <<NL>> \o Wrapped(SubSeq(s, w + 1, Len(s)), w)

\* Sequence lengths of the generated records: up to lines longer than the
\* buffer.
SeqLens == 0..(BufSize + 1)

\* Line widths of the generated blocks (0: not wrapped).
Widths == {0, 1, 2}

\* The records with sequence lengths ns.
RecsOf(ns) == [j \in 1..Len(ns) |-> [Identifier |-> IdOf(j), Sequence |-> Bases4(ns[j])]]

LengthLists == UNION {[1..k -> SeqLens] : k \in 1..MaxRecs}

FastaText(recs, w) ==
    Concat([j \in 1..Len(recs) |->
              <<">">> \o recs[j].Identifier \o <<NL>> \o Wrapped(recs[j].Sequence, w)])

\* A quality block for a sequence of n bases, every score the byte q.
Quality(n, q) == [i \in 1..n |-> q]

FastqText(recs, w, q, qw) ==
    Concat([j \in 1..Len(recs) |->
              <<"@">> \o recs[j].Identifier \o <<NL>> \o Wrapped(recs[j].Sequence, w)
                  \o <<"+", NL>> \o Wrapped(Quality(Len(recs[j].Sequence), q), qw)])

\* data without its last byte: the last line has no terminator.
Chop(data) == SubSeq(data, 1, Len(data) - 1)

FastaCorpus ==
    {[data |-> IF term THEN FastaText(RecsOf(ns), w) ELSE Chop(FastaText(RecsOf(ns), w)),
      want |-> [form |-> "fasta", recs |-> RecsOf(ns), term |-> term, w |-> w,
                q |-> "!", qw |-> 0]]
        : ns \in LengthLists, w \in Widths, term \in BOOLEAN}

FastqCorpus ==
    {[data |-> FastqText(RecsOf(x[1]), x[2], x[3], x[4]),
      want |-> [form |-> "fastq", recs |-> RecsOf(x[1]), term |-> TRUE, w |-> x[2],
                q |-> x[3], qw |-> x[4]]]
        : x \in LengthLists \X Widths \X {"!", "@", "+"} \X Widths}

Corpus == FastaCorpus \cup FastqCorpus

InitFmt ==
    /\ files = <<>> /\ numCPU = 1 /\ noutputs = 1 /\ gz = FALSE
    /\ PipelineInit
    /\ \E e \in Corpus, endErr \in {"EOF", "EIO"} :
          drdr = NewReader(e.data, endErr) /\ dwant = e.want
    /\ dpc = "start" /\ dopenErr = "nil" /\ drecs = <<>> /\ dlog = <<>>

SpecFmt == InitFmt /\ [][NextDec]_vars

\* The canonical loop as a function: the records convertFile sends for a
\* file, from decoder state f on, after the records acc.
RECURSIVE DecodeFrom(_, _)
DecodeBody(f, s, acc) ==
    DecodeFrom(s.rdr, Append(acc, [Identifier |-> Identifier(f), Sequence |-> s.seq]))

DecodeStep(n, acc) ==
    IF n.ok THEN DecodeBody(n.rdr, RdrSequence(n.rdr), acc) ELSE acc

DecodeFrom(f, acc) == DecodeStep(RdrNext(f), acc)

DecodeOpened(o) == IF o.err # "nil" THEN <<>> ELSE DecodeFrom(o.rdr, <<>>)

\* The records of a file with content data that is read without error.
DecodeAll(data) == DecodeOpened(Open(data, "EOF"))

\* What one seqWriter writes for the records recs.
Encode(recs) == Concat([j \in 1..Len(recs) |-> WriteSeq(recs[j])])

(***************************************************************************)
(* A decoder whose methods are called in any order, as the Reader          *)
(* interface allows: up to MaxCalls calls of Next, Sequence and            *)
(* SequenceBytes after Open, with Identifier, Err and Progress in between. *)
(***************************************************************************)

MaxCalls == 3

InitApi ==
    /\ files = <<>> /\ numCPU = 1 /\ noutputs = 1 /\ gz = FALSE
    /\ PipelineInit
    /\ \E e \in Corpus \cup {[data |-> b, want |-> Raw] : b \in ByteStrings(MaxLen)},
          endErr \in {"EOF", "EIO"} :
          drdr = NewReader(e.data, endErr) /\ dwant = e.want
    /\ dpc = "start" /\ dopenErr = "nil" /\ drecs = <<>> /\ dlog = <<>>

\* Open has returned a decoder and fewer than MaxCalls calls were made on it.
ApiReady == dpc \in {"loop", "body", "end"} /\ Len(dlog) < MaxCalls

\* What a call of rdr.Next() returned; val is rdr.Identifier() after it.
ApiAdvanced(r) ==
    /\ drdr' = r.rdr
    /\ dpc' = IF r.ok THEN "body" ELSE "end"
    /\ dlog' = Append(dlog, [op |-> "Next", ok |-> r.ok,
                             val |-> IF r.ok THEN Identifier(r.rdr) ELSE <<>>])

\* rdr.Next()
ApiNext ==
    /\ ApiReady
    /\ ApiAdvanced(RdrNext(drdr))
    /\ UNCHANGED <<dopenErr, drecs, dwant, pipeVars>>

\* What a call of rdr.Sequence() or rdr.SequenceBytes() returned.
ApiRead(op, s) ==
    /\ drdr' = s.rdr
    /\ dpc' = "loop"
    /\ dlog' = Append(dlog, [op |-> op, ok |-> TRUE, val |-> s.seq])

\* rdr.Sequence()
ApiSequence ==
    /\ ApiReady
    /\ ApiRead("Sequence", RdrSequence(drdr))
    /\ UNCHANGED <<dopenErr, drecs, dwant, pipeVars>>

\* rdr.SequenceBytes(eachbyte)
ApiSequenceBytes ==
    /\ ApiReady
    /\ ApiRead("SequenceBytes", RdrSequenceBytes(drdr))
    /\ UNCHANGED <<dopenErr, drecs, dwant, pipeVars>>

\* rdr.Err() and rdr.Progress(): the decoder is left as it is.
ApiObserve ==
    /\ ApiReady
    /\ UNCHANGED vars

NextApi == DecOpen \/ ApiNext \/ ApiSequence \/ ApiSequenceBytes \/ ApiObserve

SpecApi == InitApi /\ [][NextApi]_vars

(***************************************************************************)
(* A writer handed one record: seqWriter's loop body on records of up to   *)
(* MaxLines full lines and one byte more.                                  *)
(***************************************************************************)

MaxLines == 2

\* The records handed to a writer: no identifier or the identifier "s1",
\* and a sequence of n bases.
WriterRecords ==
    {[Identifier |-> id, Sequence |-> Bases4(n), src |-> <<1, 1>>]
        : id \in {<<>>, <<"s", "1">>}, n \in 0..(MaxLines * WrapWidth + 1)}

\* The pipeline at the moment its first record rec is about to be written:
\* with one output a worker is sending it on seqChan, with several
\* fanWriters has put it into the channel of destination 0.
WriterAbout(rec) ==
    /\ status = "running"
    /\ mpc = "wait2" /\ mi = 1 /\ fnClosed = TRUE /\ seqClosed = FALSE
    /\ wg = IF Fanned THEN 1 + noutputs ELSE 1
    /\ wg2 = 1
    /\ wpc = [c \in CPUs |-> IF c # 0 THEN "unborn" ELSE IF Fanned THEN "next" ELSE "send"]
    /\ wfn = [c \in CPUs |-> IF c = 0 THEN 1 ELSE 0]
    /\ wk = [c \in CPUs |-> IF c = 0 THEN 1 ELSE 0]
    /\ wrdr = [c \in CPUs |-> NoRdr]
    /\ wpct = [c \in CPUs |-> 0]
    /\ wmsg = [c \in CPUs |-> IF c = 0 THEN rec ELSE NoSeq]
    /\ fpc = IF Fanned THEN "recv" ELSE "none"
    /\ idx = IF Fanned THEN 1 ELSE 0
    /\ fi = 0 /\ fheld = NoSeq
    /\ subs = [d \in Outs |-> IF Fanned /\ d = 0 THEN <<rec>> ELSE <<>>]
    /\ subClosed = [d \in Outs |-> FALSE]
    /\ spc = [d \in Outs |-> IF d < noutputs THEN "recv" ELSE "unborn"]
    /\ outfile = [d \in Outs |-> <<>>]
    /\ fopen = [d \in Outs |-> d < noutputs]
    /\ zopen = [d \in Outs |-> d < noutputs /\ gz]
    /\ statuses = [c \in CPUs |-> 0]
    /\ produced = 1
    /\ received = IF Fanned THEN <<rec.src>> ELSE <<>>
    /\ handed = [d \in Outs |-> IF Fanned /\ d = 0 THEN <<rec.src>> ELSE <<>>]
    /\ wrote = [d \in Outs |-> <<>>]
    /\ takenBy = <<>> /\ finalRdr = <<>>
    /\ logged = <<>>

InitWr ==
    /\ files = <<>> /\ numCPU = 1 /\ gz = FALSE
    /\ noutputs \in 1..MaxOut
    /\ \E rec \in WriterRecords :
          /\ WriterAbout(rec)
          /\ dwant = [form |-> "rec", recs |-> <<rec>>, term |-> TRUE, w |-> 0,
                      q |-> "!", qw |-> 0]
    /\ dpc = "off" /\ drdr = NoRdr /\ dopenErr = "nil" /\ drecs = <<>> /\ dlog = <<>>

NextWr ==
    \/ \E c \in CPUs : WorkerSendToWriter(c)
    \/ \E d \in Outs : WriterTake(d)

SpecWr == InitWr /\ [][NextWr]_vars

(***************************************************************************)
(* Properties of the pipeline.                                             *)
(***************************************************************************)

RECURSIVE SumLen(_, _)
SumLen(f, S) ==
    IF S = {} THEN 0
    ELSE LET d == CHOOSE x \in S : TRUE IN Len(f[d]) + SumLen(f, S \ {d})

Dests == 0..(noutputs - 1)

\* The places <<d, k>> of the output files where record t was written.
WrittenAt(t) == {<<d, k>> \in Outs \X (1..Len(received)) : k <= Len(wrote[d]) /\ wrote[d][k] = t}

\* The j-th record fanWriters' counter assigns to destination d is the
\* record it received at this position of received.
ArrivalOf(d, j) == (j - 1) * noutputs + d + 1

AllWorkersDone == \A c \in CPUs : wpc[c] \in {"unborn", "done"}

\* C1: conservation of records.  In a run that has completed without a fatal
\* error, the records produced by the workers (one per Next() that returned
\* true), the records received from seqChan and the records written by all
\* writers are equally many, and every record received was written exactly
\* once.
C1_Conservation ==
    status = "ok" =>
        /\ produced = Len(received)
        /\ Len(received) = SumLen(wrote, Outs)
        /\ \A j \in 1..Len(received) : Cardinality(WrittenAt(received[j])) = 1

C1_Witness ==
    /\ status = "ok" /\ noutputs = 2 /\ nc = 2
    /\ Len(wrote[0]) = 2 /\ Len(wrote[1]) = 1

\* C2: round-robin sharding.  With two or more outputs the i-th record
\* fanWriters receives (from 0) is handed to destination i mod N and to no
\* other: each destination's hand-offs are exactly the arrivals i with
\* i mod N = d, in order.
C2_RoundRobin ==
    Fanned =>
        /\ idx = SumLen(handed, Outs)
        /\ \A d \in Outs :
             /\ Len(handed[d]) = Cardinality({i \in 0..(idx - 1) : i % noutputs = d})
             /\ \A j \in 1..Len(handed[d]) : handed[d][j] = received[ArrivalOf(d, j)]

C2_Witness ==
    /\ noutputs = 2 /\ Len(received) = 4
    /\ handed[0] = <<received[1], received[3]>>
    /\ handed[1] = <<received[2], received[4]>>

\* C3: seqChan is closed only after every worker has finished.  While a
\* worker has a file to read or a record to send, seqChan is open; and when
\* a consumer has seen it closed, every worker is done and every input file
\* has been taken from the queue.
ConsumerSawClosed ==
    \/ fpc \in {"close", "done", "log", "end"}
    \/ ~Fanned /\ spc[0] \in {"closed", "end"}

C3_CloseAfterProducers ==
    /\ seqClosed => AllWorkersDone /\ mpc \in {"wait", "exit"}
    /\ ConsumerSawClosed =>
         /\ seqClosed /\ AllWorkersDone
         /\ \A i \in 1..Len(files) : takenBy[i] # <<>>

C3_Witness ==
    /\ ConsumerSawClosed /\ nc = 2 /\ Len(received) >= 2
    /\ wpc[0] = "done" /\ wpc[1] = "done"

\* C4: every input filename is taken from the work queue by exactly one
\* worker, exactly once; in a completed run none is left unprocessed.
C4_EachFileOnce ==
    /\ \A i \in 1..Len(files) : Len(takenBy[i]) <= 1
    /\ \A c1, c2 \in CPUs :
         (c1 # c2 /\ wpc[c1] \in {"next", "report", "send"}
                  /\ wpc[c2] \in {"next", "report", "send"}) => wfn[c1] # wfn[c2]
    /\ status = "ok" =>
         \A i \in 1..Len(files) : Len(takenBy[i]) = 1 /\ finalRdr[i] # NoRdr

C4_Witness ==
    /\ status = "ok" /\ Len(files) = 2 /\ nc = 2
    /\ takenBy[1] # takenBy[2]

\* C5: per-destination ordering.  Each writer writes the records of its
\* destination in the order in which they were received from seqChan, so two
\* records of one input file in one destination are in file order.
C5_DestinationOrder ==
    /\ \A d \in Outs : \A j \in 1..Len(wrote[d]) :
         wrote[d][j] = IF Fanned THEN received[ArrivalOf(d, j)] ELSE received[j]
    /\ \A d \in Outs : \A j, k \in 1..Len(wrote[d]) :
         (j < k /\ wrote[d][j][1] = wrote[d][k][1]) => wrote[d][j][2] < wrote[d][k][2]

C5_Witness ==
    /\ noutputs = 2 /\ nc = 2
    /\ \E d \in Outs :
         /\ Len(wrote[d]) >= 2 /\ wrote[d][1][1] = wrote[d][2][1]
         /\ \E m \in 1..Len(received) : received[m][1] # wrote[d][1][1]

\* C6: main returns from wg.Wait() only after all output is complete: every
\* writer has consumed every record of its destination, has flushed and
\* closed its gzip writer if it has one, has closed its file and has called
\* wg.Done(); with one output and with several.
C6_ExitAfterOutput ==
    status = "ok" =>
        \A d \in Dests :
            /\ spc[d] = "end" /\ ~fopen[d] /\ ~zopen[d]
            /\ subs[d] = <<>>
            /\ wrote[d] = IF Fanned THEN handed[d] ELSE received

C6_Witness ==
    /\ status = "ok" /\ noutputs = 2 /\ gz
    /\ wrote[0] # <<>> /\ wrote[1] # <<>>

\* Reading no input file of the run fails.
NoReadError == \A i \in 1..Len(files) : Fixtures[files[i]].endErr = "EOF"

C8_NoSilentSkip ==
    status = "ok" =>
        \A i \in 1..Len(files) : finalRdr[i].pos = Len(Fixtures[files[i]].data)

(***************************************************************************)
(* Properties of the decoders.                                             *)
(***************************************************************************)

IsPrefix(p, q) == Len(p) <= Len(q) /\ SubSeq(q, 1, Len(p)) = p

\* Open has returned and Next has not been called.
JustOpened == dpc \in {"loop", "openfail"} /\ drdr.lastErr = "errNotStarted"

\* C9: format-detecting Open.  Open consumes nothing; it returns a FASTA
\* decoder when the first byte is '>', a FASTQ decoder when it is '@', and
\* fails on any other first byte; the first Next() of the decoder returned
\* reads the stream from its first byte.
C9_OpenDetectsFormat ==
    /\ JustOpened =>
         /\ drdr.pos = 0
         /\ (drdr.data # <<>> /\ drdr.data[1] = ">")
               => (dopenErr = "nil" /\ drdr.kind = "fasta")
         /\ (drdr.data # <<>> /\ drdr.data[1] = "@")
               => (dopenErr = "nil" /\ drdr.kind = "fastq")
         /\ (drdr.data # <<>> /\ drdr.data[1] \notin {">", "@"})
               => dopenErr # "nil"
    /\ (dpc \in {"body", "end"} /\ drecs = <<>>)
         => IsPrefix(drdr.identifierBytes, drdr.data)

\* C10: decoder teardown.  When Next() has returned false at the end of the
\* stream or on a read error, the file handle is closed.
C10_ClosedAtEnd ==
    (dpc = "end" /\ drdr.lastErr \in {"EOF", "EIO"}) => drdr.closed

(***************************************************************************)
(* Properties of the decoders over streams built from known records.       *)
(***************************************************************************)

\* The longest line of a block of n bytes in lines of w bytes.
LineLen(n, w) == IF w = 0 THEN n ELSE Min(n, w)

\* Every sequence line of the stream, with its terminator, fits the buffer.
SeqLinesFit ==
    \A j \in 1..Len(dwant.recs) : LineLen(Len(dwant.recs[j].Sequence), dwant.w) < BufSize

\* No record of the stream has an empty sequence.
NoEmptySeq == \A j \in 1..Len(dwant.recs) : dwant.recs[j].Sequence # <<>>

\* The stream is a FASTQ file that is read without error.
ValidFastq == dwant.form = "fastq" /\ drdr.endErr = "EOF"

\* The offset just behind the header line of the j-th record of the FASTQ
\* stream.
FastqHeaderEnd(j) ==
    Len(FastqText(SubSeq(dwant.recs, 1, j - 1), dwant.w, dwant.q, dwant.qw))
        + Len(dwant.recs[j].Identifier) + 2

\* C11: FASTQ quality skipping.  For a valid FASTQ stream (sequences not
\* empty, sequence lines within the buffer), whatever the wrapping of the
\* quality block and its first bytes, each Next() that returns true has
\* skipped exactly the quality block of the record before and stands right
\* behind the real header of the following record.
C11_QualitySkipped ==
    (ValidFastq /\ NoEmptySeq /\ SeqLinesFit /\ dpc = "body") =>
        /\ Len(drecs) < Len(dwant.recs)
        /\ Identifier(drdr) = dwant.recs[Len(drecs) + 1].Identifier
        /\ drdr.pos = FastqHeaderEnd(Len(drecs) + 1)

\* The stream was built from records, ends with a line terminator and is
\* read without error.
ValidTerminated == dwant.form \in {"fasta", "fastq"} /\ dwant.term /\ drdr.endErr = "EOF"

\* C12: lines longer than the read-ahead buffer.  The sequence Sequence()
\* returns for the first record of a valid stream is the record's sequence,
\* every byte once and in order, also when its line is longer than the
\* buffer.
C12_LongLines ==
    (ValidTerminated /\ drecs # <<>>) => drecs[1].Sequence = dwant.recs[1].Sequence

\* Every sequence of the stream, written on one line, fits the buffer (as
\* the writer's 80-column lines fit bufio's 4096 bytes).
SeqsFit == \A j \in 1..Len(dwant.recs) : Len(dwant.recs[j].Sequence) < BufSize

\* C13: FASTA round trip.  For a valid FASTA stream, wrapped or not, with or
\* without a terminator after its last line, the records decoded, written
\* by the writer and decoded again are the records of the stream.
C13_RoundTrip ==
    (dwant.form = "fasta" /\ drdr.endErr = "EOF" /\ SeqsFit /\ dpc = "end") =>
        DecodeAll(Encode(drecs)) = dwant.recs

\* C14: FASTQ decoding.  For a well-formed FASTQ stream of k records (here
\* with the quality block on one line and sequence lines within the buffer)
\* the loop yields the k records in stream order, identifier and sequence as
\* in the stream, and Next() returns false on call k + 1; sequences may be
\* empty.
C14_FastqDecoding ==
    (ValidFastq /\ SeqLinesFit /\ dwant.qw = 0) =>
        /\ IsPrefix(drecs, dwant.recs)
        /\ dpc = "body" => Len(drecs) < Len(dwant.recs)
        /\ dpc = "end" => drecs = dwant.recs

(***************************************************************************)
(* Properties of the writer.                                               *)
(***************************************************************************)

\* The lines of text, without their terminators; what follows the last
\* terminator, if anything, is a line of its own.
RECURSIVE SplitLines(_)
SplitAt(text, i) ==
    IF i = 0 THEN <<text>>
    ELSE <<SubSeq(text, 1, i - 1)>> \o SplitLines(SubSeq(text, i + 1, Len(text)))

SplitLines(text) == IF text = <<>> THEN <<>> ELSE SplitAt(text, IndexByte(text, NL))

\* The lines ls are the record rec in the writer's format.
InFormat(ls, rec) ==
    /\ Len(ls) >= 2
    /\ ls[1] = <<">">> \o rec.Identifier
    /\ \A i \in 2..(Len(ls) - 1) : Len(ls[i]) = 80
    /\ Len(ls[Len(ls)]) <= 80
    /\ (ls[Len(ls)] = <<>>) <=> (rec.Sequence = <<>>)
    /\ Concat(Tail(ls)) = rec.Sequence
    /\ Len(rec.Sequence) <= 80 => Len(ls) = 2

\* C15: writer output format.  What a writer has written for a record is
\* the line '>' + identifier and then the sequence in lines of exactly 80
\* characters but the last, which has at most 80 and is empty exactly when
\* the sequence is; every line is terminated; a sequence of at most 80
\* characters makes two lines, so ("s1", "ACGTACGT") is ">s1\nACGTACGT\n".
C15_WriterFormat ==
    \A d \in Outs :
        wrote[d] # <<>> =>
            /\ outfile[d][Len(outfile[d])] = NL
            /\ InFormat(SplitLines(outfile[d]), dwant.recs[1])
            /\ (dwant.recs[1].Identifier = <<"s", "1">> /\ Len(dwant.recs[1].Sequence) = 8)
                   => outfile[d] = <<">", "s", "1", NL, "A", "C", "G", "T",
                                      "A", "C", "G", "T", NL>>

C15_Witness ==
    \E d \in Outs :
        /\ wrote[d] # <<>> /\ noutputs > 1
        /\ Len(dwant.recs[1].Sequence) = 2 * WrapWidth + 1
        /\ Len(SplitLines(outfile[d])) = 4

(***************************************************************************)
(* Properties of the Reader interface under any order of calls.            *)
(***************************************************************************)

\* The calls i < j of the log are calls of Next with no call of Next between.
ConsecutiveNext(i, j) ==
    /\ i < j /\ dlog[i].op = "Next" /\ dlog[j].op = "Next"
    /\ \A m \in (i + 1)..(j - 1) : dlog[m].op # "Next"

\* A valid stream that the canonical loop decodes to its records: terminated,
\* read without error, no empty sequence, lines within the buffer, quality
\* on one line.
PlainValid ==
    /\ ValidTerminated /\ NoEmptySeq /\ SeqLinesFit /\ dwant.qw = 0

\* id1 and id2 are the identifiers of a record of the stream and of the
\* record that follows it.
Follows(id1, id2) ==
    \E m \in 1..(Len(dwant.recs) - 1) :
        dwant.recs[m].Identifier = id1 /\ dwant.recs[m + 1].Identifier = id2

\* C16: Next() advances the reader.  On a valid stream, when two
\* consecutive calls of Next() both return true, Identifier() after the
\* second is the identifier of the record following the one of the first,
\* whether or not Sequence() or SequenceBytes() was called between them.
C16_NextAdvances ==
    PlainValid =>
        \A i, j \in 1..Len(dlog) :
            (ConsecutiveNext(i, j) /\ dlog[i].ok /\ dlog[j].ok)
                => Follows(dlog[i].val, dlog[j].val)

\* C18: terminal decoder states are absorbing.  Once a call of Next() has
\* returned false, every later call of Next() returns false, whatever is
\* called in between.
C18_TerminalAbsorbing ==
    \A i, j \in 1..Len(dlog) :
        (i < j /\ dlog[i].op = "Next" /\ ~dlog[i].ok /\ dlog[j].op = "Next")
            => ~dlog[j].ok

\* The outcomes a of Sequence() and b of SequenceBytes() agree: same bytes,
\* same buffered marker line, stream position and remembered length, and
\* the same result of the following Next().
SameOutcome(a, b) ==
    /\ a.seq = b.seq
    /\ a.rdr.identifierBytes = b.rdr.identifierBytes
    /\ a.rdr.pos = b.rdr.pos
    /\ a.rdr.lastSeqLen = b.rdr.lastSeqLen
    /\ RdrNext(a.rdr).ok = RdrNext(b.rdr).ok

\* C19: the byte-level variant agrees with the string variant.  Just after
\* a Next() that returned true, SequenceBytes() passes on the bytes
\* Sequence() would return and leaves the decoder in the same state.
C19_BytesAgree ==
    (dpc = "body" /\ drdr.endErr = "EOF") =>
        SameOutcome(RdrSequence(drdr), RdrSequenceBytes(drdr))

(***************************************************************************)
(* Properties of the pipeline's reporting.                                 *)
(***************************************************************************)

\* C17: total count report.  When a run has completed without a fatal error
\* (main returned from wg.Wait and the process exits), the total number of
\* records was reported exactly once, and the number reported is the number
\* of records received from seqChan, for every number of outputs.
C17_TotalReported ==
    status = "ok" => (Len(logged) = 1 /\ logged[1] = Len(received))

\* The steps of every task but statusline: all of Next except the ticker
\* case and the receive that meets a worker's send on reporter.
NextQuiet ==
    \/ MainSpawnWorker \/ MainCloseFn \/ MainWaitWorkers \/ MainCloseSeq \/ MainWait
    \/ \E c \in CPUs : WorkerTakeFile(c)
    \/ \E c \in CPUs : WorkerDone(c)
    \/ \E c \in CPUs : WorkerNext(c)
    \/ \E c \in CPUs : WorkerSendToWriter(c)
    \/ \E c \in CPUs : WorkerSendToFan(c)
    \/ \E d \in Outs : WriterTake(d)
    \/ \E d \in Outs : WriterFinish(d)
    \/ \E d \in Outs : WriterDone(d)
    \/ FanSpawn \/ FanForward \/ FanSeesClosed \/ FanClose \/ FanDone \/ FanLog

\* Every task but statusline is scheduled fairly; statusline may take steps
\* but may also stop taking them from some point on (its write to stderr
\* blocks, or it is not scheduled again).
QuietSpec == Spec /\ WF_vars(NextQuiet)

\* C20: progress reporting is decoupled from the record flow.  Even when the
\* aggregator stops taking steps after some point, a run whose reads do not
\* fail delivers its records and returns from main.
C20_Decoupled ==
    NoReadError => <>(status = "ok")

====
